---- MODULE Spec2Model ----
(***************************************************************************)
(* The OnChain2048 contract of src/src/main.jsx (lines 241-455): a 4x4     *)
(* board of uint256 cells, a score, a gameOver flag and a spawn nonce,     *)
(* driven by the owner's resetGame and move transactions; and the React    *)
(* client App of the same file (lines 52-231), which mirrors the state of  *)
(* the deployed contract it is bound to (CONTRACT_ADDRESS, ABI) and        *)
(* submits reset and move transactions to it.                              *)
(***************************************************************************)
EXTENDS Integers, Sequences, FiniteSets, TLC

VARIABLES owner, board, score, gameOver, nonce, call, result, events, mergeIO,
          app, net

vars == <<owner, board, score, gameOver, nonce, call, result, events, mergeIO,
          app, net>>

contractVars == <<owner, board, score, gameOver, nonce, call, result, events>>

(* ------------------------------ bounds --------------------------------- *)

\* direction arguments are drawn from 0..MaxDir: 0..3 are the valid ones
MaxDir == 4

\* the outputs of _random are drawn from {0, 9, .., 9 * MaxRand}
MaxRand == 1

\* the tile values of the lines handed to _merge on its own: 2^1 .. 2^MaxExp
MaxExp == 3

\* the tiles of the boards handed to the move routines on their own:
\* 2^1 .. 2^MaxSlideExp
MaxSlideExp == 2

\* the boards the deployed contract answers with: GameBoard(0..MaxChainBoard)
MaxChainBoard == 1

\* the updateGameState invocations that may be in flight at once
MaxUpdates == 1

\* the unconfirmed move transactions the wait hook no longer watches
MaxUnwatched == 1

(* --------------------------- program constants ------------------------- *)

Side == 4

NumCells == 16

Cells == 0 .. (NumCells - 1)

LineIdx == 0 .. (Side - 1)

Addresses == {"alice", "bob"}

Directions == 0 .. MaxDir

\* the directions the if/else chain of move accepts
ValidDirections == 0 .. 3

\* the account that deploys the contract
Deployer == "alice"

Entropy == {9 * k : k \in 0 .. MaxRand}

Tiles == {2 ^ e : e \in 1 .. MaxExp}

ZeroBoard == [i \in Cells |-> 0]

ZeroLine == [i \in LineIdx |-> 0]

NoMerge == [done |-> FALSE, line |-> ZeroLine, len |-> 0,
            moved |-> FALSE, addedScore |-> 0, out |-> ZeroLine]

(* ------------------------------- _random ------------------------------- *)

\* a generator that forgets nonce++
_random_sameNonce(n, r) == [nonce |-> n, value |-> r]

\* nonce++ and a hash of (timestamp, prevrandao, sender, nonce): the hash
\* value r is an input of the transaction
_random(n, r) == [nonce |-> n + 1, value |-> r]

(* ---------------------------- _addRandomTile --------------------------- *)

\* a first loop whose test is inverted: it counts the occupied cells
RECURSIVE CountEmpty_occupied(_, _)
CountEmpty_occupied(b, i) ==
    IF i = NumCells THEN 0
    ELSE (IF b[i] # 0 THEN 1 ELSE 0) + CountEmpty_occupied(b, i + 1)

\* the first loop: the number of empty cells from cell i on
RECURSIVE CountEmpty(_, _)
CountEmpty(b, i) ==
    IF i = NumCells THEN 0
    ELSE (IF b[i] = 0 THEN 1 ELSE 0) + CountEmpty(b, i + 1)

\* a second loop that counts every cell, empty or not
RECURSIVE PlaceScan_anyCell(_, _, _, _)
PlaceScan_anyCell(b, pos, i, index) ==
    IF i = NumCells THEN NumCells
    ELSE IF index = pos THEN i ELSE PlaceScan_anyCell(b, pos, i + 1, index + 1)

\* the second loop: the cell of the pos-th empty cell, scanning from i
RECURSIVE PlaceScan(_, _, _, _)
PlaceScan(b, pos, i, index) ==
    IF i = NumCells THEN NumCells
    ELSE IF b[i] = 0
         THEN IF index = pos THEN i ELSE PlaceScan(b, pos, i + 1, index + 1)
         ELSE PlaceScan(b, pos, i + 1, index)

SpawnValue(r) == IF r % 10 < 9 THEN 2 ELSE 4

_addRandomTile(b, n, ev, r1, r2) ==
    LET emptyCount == CountEmpty(b, 0) IN
    IF emptyCount = 0 THEN [board |-> b, nonce |-> n, events |-> ev]
    ELSE LET rnd1  == _random(n, r1)
             pos   == rnd1.value % emptyCount
             rnd2  == _random(rnd1.nonce, r2)
             value == SpawnValue(rnd2.value)
             i     == PlaceScan(b, pos, 0, 0)
         IN IF i = NumCells
            THEN [board |-> b, nonce |-> rnd2.nonce, events |-> ev]
            ELSE [board  |-> [b EXCEPT ![i] = value],
                  nonce  |-> rnd2.nonce,
                  events |-> Append(ev, [name |-> "NewTileAdded",
                                         position |-> i, value |-> value])]

(* -------------------------------- _merge ------------------------------- *)

\* the merged tile of an early version: right for a pair of 2s only
Merged_plusTwo(v) == v + 2

\* uint256 merged = line[readIdx] * 2
Merged(v) == v * 2

\* a merge loop that lets the merged tile meet the next one again
RECURSIVE MergeLoop_cascade(_, _, _, _, _, _, _)
MergeLoop_cascade(line, len, readIdx, writeIdx, newLine, addedScore, moved) ==
    IF readIdx < len
    THEN IF readIdx + 1 < len /\ line[readIdx] = line[readIdx + 1]
                              /\ line[readIdx] # 0
         THEN LET merged == Merged(line[readIdx]) IN
              MergeLoop_cascade([line EXCEPT ![readIdx + 1] = merged], len,
                                readIdx + 1, writeIdx, newLine,
                                addedScore + merged, TRUE)
         ELSE MergeLoop_cascade(line, len, readIdx + 1, writeIdx + 1,
                                [newLine EXCEPT ![writeIdx] = line[readIdx]],
                                addedScore, moved)
    ELSE [newLine |-> newLine, addedScore |-> addedScore, moved |-> moved]

\* the while loop of _merge
RECURSIVE MergeLoop(_, _, _, _, _, _, _)
MergeLoop(line, len, readIdx, writeIdx, newLine, addedScore, moved) ==
    IF readIdx < len
    THEN IF readIdx + 1 < len /\ line[readIdx] = line[readIdx + 1]
                              /\ line[readIdx] # 0
         THEN LET merged == Merged(line[readIdx]) IN
              MergeLoop(line, len, readIdx + 2, writeIdx + 1,
                        [newLine EXCEPT ![writeIdx] = merged],
                        addedScore + merged, TRUE)
         ELSE MergeLoop(line, len, readIdx + 1, writeIdx + 1,
                        [newLine EXCEPT ![writeIdx] = line[readIdx]],
                        addedScore, moved)
    ELSE [newLine |-> newLine, addedScore |-> addedScore, moved |-> moved]

\* a _merge whose positional check looks at the tiles, not at the difference
_merge_anyTile(line, len) ==
    IF len = 0 THEN [moved |-> FALSE, addedScore |-> 0, line |-> line]
    ELSE LET w == MergeLoop(line, len, 0, 0, ZeroLine, 0, FALSE)
             positional == \E i \in LineIdx : i < len /\ line[i] # 0
         IN [moved      |-> (w.moved \/ positional),
             addedScore |-> w.addedScore,
             line       |-> w.newLine]

\* the result of _merge: the flags it returns and the line it leaves in memory
_merge(line, len) ==
    IF len = 0 THEN [moved |-> FALSE, addedScore |-> 0, line |-> line]
    ELSE LET w == MergeLoop(line, len, 0, 0, ZeroLine, 0, FALSE)
             positional == \E i \in LineIdx : i < len /\ line[i] # w.newLine[i]
         IN [moved      |-> (w.moved \/ positional),
             addedScore |-> w.addedScore,
             line       |-> w.newLine]

(* ------------------------- the four move routines ---------------------- *)

\* the extraction loop: the non-zero cells of the line, in traversal order
RECURSIVE ExtractLoop(_, _, _, _, _)
ExtractLoop(b, cellOf, k, col, idx) ==
    IF k = Side THEN [col |-> col, idx |-> idx]
    ELSE LET val == b[cellOf[k]] IN
         IF val # 0
         THEN ExtractLoop(b, cellOf, k + 1, [col EXCEPT ![idx] = val], idx + 1)
         ELSE ExtractLoop(b, cellOf, k + 1, col, idx)

\* the write-back loop: board[cell k of the line] = (idx < 4) ? col[idx++] : 0
WriteBack(b, cellOf, col) ==
    [c \in Cells |->
        IF \E k \in LineIdx : cellOf[k] = c
        THEN LET k == CHOOSE k \in LineIdx : cellOf[k] = c
             IN IF k < Side THEN col[k] ELSE 0
        ELSE b[c]]

\* an outer-loop iteration that assigns the line's score instead of adding it
LineStep_assign(st, cellOf) ==
    LET ex == ExtractLoop(st.board, cellOf, 0, ZeroLine, 0)
        m  == _merge(ex.col, ex.idx)
    IN [moved |-> (st.moved \/ m.moved),
        score |-> m.addedScore,
        board |-> WriteBack(st.board, cellOf, m.line)]

\* one iteration of a move routine's outer loop, on the line whose k-th
\* cell in traversal order is cellOf[k]
LineStep(st, cellOf) ==
    LET ex == ExtractLoop(st.board, cellOf, 0, ZeroLine, 0)
        m  == _merge(ex.col, ex.idx)
    IN [moved |-> (st.moved \/ m.moved),
        score |-> st.score + m.addedScore,
        board |-> WriteBack(st.board, cellOf, m.line)]

RECURSIVE OuterLoop(_, _, _)
OuterLoop(st, cellOf, n) ==
    IF n = Side THEN st
    ELSE OuterLoop(LineStep(st, cellOf[n]), cellOf, n + 1)

UpCell(x, k) == k * Side + x

\* a bottom-up traversal copied from _moveUp without reversing it
DownCell_fromTop(x, k) == k * Side + x

DownCell(x, k) == (Side - 1 - k) * Side + x

LeftCell(y, k) == y * Side + k

RightCell(y, k) == y * Side + (Side - 1 - k)

_moveUp(b, s) ==
    OuterLoop([moved |-> FALSE, score |-> s, board |-> b],
              [x \in LineIdx |-> [k \in LineIdx |-> UpCell(x, k)]], 0)

_moveDown(b, s) ==
    OuterLoop([moved |-> FALSE, score |-> s, board |-> b],
              [x \in LineIdx |-> [k \in LineIdx |-> DownCell(x, k)]], 0)

_moveLeft(b, s) ==
    OuterLoop([moved |-> FALSE, score |-> s, board |-> b],
              [y \in LineIdx |-> [k \in LineIdx |-> LeftCell(y, k)]], 0)

_moveRight(b, s) ==
    OuterLoop([moved |-> FALSE, score |-> s, board |-> b],
              [y \in LineIdx |-> [k \in LineIdx |-> RightCell(y, k)]], 0)

(* ----------------------------- _isGameOver ----------------------------- *)

\* a detector whose empty-cell loop returns true
_isGameOver_emptyIsOver(b) ==
    IF \E i \in Cells : b[i] = 0 THEN TRUE
    ELSE IF \E y \in LineIdx : \E x \in 0 .. (Side - 2) :
                b[y * Side + x] = b[y * Side + x + 1] THEN FALSE
    ELSE IF \E x \in LineIdx : \E y \in 0 .. (Side - 2) :
                b[y * Side + x] = b[(y + 1) * Side + x] THEN FALSE
    ELSE TRUE

\* a detector whose row loop runs over the flattened board, so that the end
\* of a row meets the start of the next
_isGameOver_flat(b) ==
    IF \E i \in Cells : b[i] = 0 THEN FALSE
    ELSE IF \E i \in 0 .. (NumCells - 2) : b[i] = b[i + 1] THEN FALSE
    ELSE IF \E x \in LineIdx : \E y \in 0 .. (Side - 2) :
                b[y * Side + x] = b[(y + 1) * Side + x] THEN FALSE
    ELSE TRUE

_isGameOver(b) ==
    IF \E i \in Cells : b[i] = 0 THEN FALSE
    ELSE IF \E y \in LineIdx : \E x \in 0 .. (Side - 2) :
                b[y * Side + x] = b[y * Side + x + 1] THEN FALSE
    ELSE IF \E x \in LineIdx : \E y \in 0 .. (Side - 2) :
                b[y * Side + x] = b[(y + 1) * Side + x] THEN FALSE
    ELSE TRUE

(* ------------------------------ transactions --------------------------- *)

\* an if/else chain whose last branch takes every remaining direction
Dispatch_noRevert(b, s, direction) ==
    IF direction = 0 THEN [valid |-> TRUE, r |-> _moveUp(b, s)]
    ELSE IF direction = 1 THEN [valid |-> TRUE, r |-> _moveDown(b, s)]
    ELSE IF direction = 2 THEN [valid |-> TRUE, r |-> _moveLeft(b, s)]
    ELSE [valid |-> TRUE, r |-> _moveRight(b, s)]

\* the if/else chain of move: the routine the direction selects
Dispatch(b, s, direction) ==
    IF direction = 0 THEN [valid |-> TRUE, r |-> _moveUp(b, s)]
    ELSE IF direction = 1 THEN [valid |-> TRUE, r |-> _moveDown(b, s)]
    ELSE IF direction = 2 THEN [valid |-> TRUE, r |-> _moveLeft(b, s)]
    ELSE IF direction = 3 THEN [valid |-> TRUE, r |-> _moveRight(b, s)]
    ELSE [valid |-> FALSE, r |-> [moved |-> FALSE, score |-> s, board |-> b]]

\* the body of resetGame
ResetBody(r1, r2, r3, r4) ==
    LET t1 == _addRandomTile(ZeroBoard, 0, <<>>, r1, r2)
        t2 == _addRandomTile(t1.board, t1.nonce, t1.events, r3, r4)
    IN [board |-> t2.board, score |-> 0, gameOver |-> FALSE,
        nonce |-> t2.nonce, events |-> t2.events]

\* a MoveMade that carries the score read before the move
MoveMadeEvent_stale(direction, newScore) ==
    [name |-> "MoveMade", direction |-> direction, newScore |-> score]

\* emit MoveMade(direction, score)
MoveMadeEvent(direction, newScore) ==
    [name |-> "MoveMade", direction |-> direction, newScore |-> newScore]

\* a modifier that lets every sender through
onlyOwner_anyone(sender) == TRUE

\* require(msg.sender == owner, "Only owner can call this")
onlyOwner(sender) == sender = owner

\* a transaction that reverts: storage and logs are rolled back
Revert(c, msg) ==
    /\ call' = c
    /\ result' = msg
    /\ events' = <<>>
    /\ UNCHANGED <<owner, board, score, gameOver, nonce>>

constructor(sender, r1, r2, r3, r4) ==
    LET rb == ResetBody(r1, r2, r3, r4) IN
    /\ owner = sender
    /\ board = rb.board
    /\ score = rb.score
    /\ gameOver = rb.gameOver
    /\ nonce = rb.nonce
    /\ events = rb.events
    /\ call = [op |-> "constructor", sender |-> sender, args |-> <<>>]
    /\ result = "ok"

resetGame(sender, r1, r2, r3, r4) ==
    LET c  == [op |-> "resetGame", sender |-> sender, args |-> <<>>]
        rb == ResetBody(r1, r2, r3, r4)
    IN IF ~onlyOwner(sender) THEN Revert(c, "Only owner can call this")
       ELSE /\ board' = rb.board
            /\ score' = rb.score
            /\ gameOver' = rb.gameOver
            /\ nonce' = rb.nonce
            /\ events' = rb.events
            /\ call' = c
            /\ result' = "ok"
            /\ UNCHANGED owner

move(sender, direction) ==
    LET c == [op |-> "move", sender |-> sender, args |-> <<direction>>]
        d == Dispatch(board, score, direction)
    IN IF ~onlyOwner(sender) THEN Revert(c, "Only owner can call this")
       ELSE IF gameOver THEN Revert(c, "Game over")
       ELSE IF ~d.valid THEN Revert(c, "Invalid direction")
       ELSE IF d.r.moved
            THEN \E r1, r2 \in Entropy :
                 LET t == _addRandomTile(d.r.board, nonce, <<>>, r1, r2) IN
                 /\ board' = t.board
                 /\ score' = d.r.score
                 /\ nonce' = t.nonce
                 /\ events' = Append(t.events,
                                     MoveMadeEvent(direction, d.r.score))
                 /\ gameOver' = (IF _isGameOver(t.board) THEN TRUE ELSE gameOver)
                 /\ call' = c
                 /\ result' = "ok"
                 /\ UNCHANGED owner
            ELSE /\ board' = d.r.board
                 /\ score' = d.r.score
                 /\ events' = <<>>
                 /\ call' = c
                 /\ result' = "ok"
                 /\ UNCHANGED <<owner, gameOver, nonce>>

(* --------------------------- the client's state ------------------------ *)

\* a board of the deployed contract: two 2-tiles at cells k and k + 1
GameBoard(k) == [c \in Cells |-> IF c \in {k, k + 1} THEN 2 ELSE 0]

\* what getMyBoard, getMyScore and getMyGameOver of the deployed contract may
\* answer: the client is bound to it by address and ABI only
ChainStates ==
    [board : {GameBoard(k) : k \in 0 .. MaxChainBoard},
     score : {0, 4},
     gameOver : BOOLEAN]

\* the states a confirmed startOrResetGame leaves: a fresh game
FreshGames == {ch \in ChainStates : ch.score = 0 /\ ~ch.gameOver}

\* the values of its render that the registered keydown listener closes over
Captured(a) ==
    [gameOver |-> a.gameOver, address |-> a.address, contract |-> a.contract]

\* the effect of [board, moveLoading]: the listener is replaced by the
\* handleKey of the render in which board or moveLoading changed; a is the
\* state of that render
Register(a) == [a EXCEPT !.listener = Captured(a)]

NoUpdates == [board |-> 0, score |-> 0, gameOver |-> 0]

\* the handler the player ran in the step that led to the state, if any
NoLog == [op |-> "none", key |-> "none", outcome |-> "none"]

\* the useState initial values, the hooks' initial values and the listener of
\* the first render
AppStart ==
    LET a == [board |-> ZeroBoard, score |-> 0, gameOver |-> FALSE,
              error |-> "null", contract |-> FALSE, address |-> FALSE,
              moveLoading |-> FALSE]
    IN [board |-> a.board, score |-> a.score, gameOver |-> a.gameOver,
        error |-> a.error, contract |-> a.contract, address |-> a.address,
        moveLoading |-> a.moveLoading, listener |-> Captured(a)]

NetStart(ch) ==
    [chain |-> ch, connecting |-> TRUE, reset |-> FALSE, move |-> "idle",
     direction |-> 0, unwatched |-> 0, updates |-> NoUpdates,
     resetConfirmed |-> FALSE,
     last |-> NoLog]

\* the client before anything has happened
ClientIdle ==
    /\ app = AppStart
    /\ net = NetStart([board |-> GameBoard(0), score |-> 0, gameOver |-> FALSE])

(* ------------------------------ the contract --------------------------- *)

Init ==
    /\ \E r1, r2, r3, r4 \in Entropy : constructor(Deployer, r1, r2, r3, r4)
    /\ mergeIO = NoMerge
    /\ ClientIdle

ResetGame ==
    /\ \E sender \in Addresses :
           IF sender # owner
           THEN resetGame(sender, 0, 0, 0, 0)
           ELSE \E r1, r2, r3, r4 \in Entropy : resetGame(sender, r1, r2, r3, r4)
    /\ UNCHANGED <<mergeIO, app, net>>

Move ==
    /\ \E sender \in Addresses : \E direction \in Directions :
           move(sender, direction)
    /\ UNCHANGED <<mergeIO, app, net>>

Next == ResetGame \/ Move

Spec == Init /\ [][Next]_vars

(* -------------------------- _merge on its own -------------------------- *)

\* a gap-free line of len tiles, as the extraction loops build it
Padded(t) == [i \in LineIdx |-> IF i < Len(t) THEN t[i + 1] ELSE 0]

ExtractedLines ==
    UNION {[1 .. n -> Tiles] : n \in 0 .. Side}

InitMerge ==
    /\ constructor(Deployer, 0, 0, 0, 0)
    /\ \E t \in ExtractedLines :
           mergeIO = [NoMerge EXCEPT !.line = Padded(t), !.len = Len(t)]
    /\ ClientIdle

ApplyMerge ==
    /\ ~mergeIO.done
    /\ LET m == _merge(mergeIO.line, mergeIO.len) IN
       mergeIO' = [mergeIO EXCEPT !.done = TRUE, !.moved = m.moved,
                                  !.addedScore = m.addedScore, !.out = m.line]
    /\ UNCHANGED <<contractVars, app, net>>

NextMerge == ApplyMerge

SpecMerge == InitMerge /\ [][NextMerge]_vars

(* --------------------- the move routines on their own ------------------ *)

SlideValues == {0} \cup {2 ^ e : e \in 1 .. MaxSlideExp}

\* a board that holds line p in column (or row) 0 and line q in column (or
\* row) 2
TwoLineBoard(p, q, byColumn) ==
    [c \in Cells |->
        LET along  == IF byColumn THEN c \div Side ELSE c % Side
            across == IF byColumn THEN c % Side ELSE c \div Side
        IN IF across = 0 THEN p[along]
           ELSE IF across = 2 THEN q[along]
           ELSE 0]

SlideBoards ==
    {TwoLineBoard(p, q, byColumn) :
        p \in [LineIdx -> SlideValues], q \in [LineIdx -> {0, 2}],
        byColumn \in BOOLEAN}

\* the storage before a move routine runs: any board, a fresh score
InitSlide ==
    /\ owner = Deployer
    /\ board \in SlideBoards
    /\ score = 0
    /\ gameOver = FALSE
    /\ nonce = 0
    /\ events = <<>>
    /\ \E direction \in ValidDirections :
           call = [op |-> "_move", sender |-> Deployer, args |-> <<direction>>]
    /\ result = "pending"
    /\ mergeIO = NoMerge
    /\ ClientIdle

\* moved = _moveUp() / _moveDown() / _moveLeft() / _moveRight()
ApplySlide ==
    /\ call.op = "_move"
    /\ result = "pending"
    /\ LET d == Dispatch(board, score, call.args[1]) IN
       /\ board' = d.r.board
       /\ score' = d.r.score
       /\ result' = IF d.r.moved THEN "moved" ELSE "not moved"
    /\ UNCHANGED <<owner, gameOver, nonce, events, call, mergeIO, app, net>>

NextSlide == ApplySlide

SpecSlide == InitSlide /\ [][NextSlide]_vars

(* ----------------------- _addRandomTile on its own --------------------- *)

\* the cells that may be empty when the spawner is entered
SpawnHoles == {0, 3, 6, 9, 15}

\* a board whose empty cells are the cells of holes
HoleBoard(holes) ==
    [c \in Cells |-> IF c \in holes THEN 0 ELSE 2 + 2 * (c % 2)]

SpawnBoards == {HoleBoard(holes) : holes \in SUBSET SpawnHoles}

\* the storage when _addRandomTile is entered, the full board included
InitSpawn ==
    /\ owner = Deployer
    /\ board \in SpawnBoards
    /\ score \in {0, 4}
    /\ gameOver = FALSE
    /\ nonce = 0
    /\ events = <<>>
    /\ \E r1, r2 \in Entropy :
           call = [op |-> "_addRandomTile", sender |-> Deployer,
                   args |-> <<r1, r2>>]
    /\ result = "pending"
    /\ mergeIO = NoMerge
    /\ ClientIdle

ApplySpawn ==
    /\ call.op = "_addRandomTile"
    /\ result = "pending"
    /\ LET t == _addRandomTile(board, nonce, <<>>, call.args[1], call.args[2]) IN
       /\ board' = t.board
       /\ nonce' = t.nonce
       /\ events' = t.events
    /\ result' = "ok"
    /\ UNCHANGED <<owner, score, gameOver, call, mergeIO, app, net>>

NextSpawn == ApplySpawn

SpecSpawn == InitSpawn /\ [][NextSpawn]_vars

(* ------------------------- _isGameOver on its own ---------------------- *)

\* the full board of alternating 2s and 4s
CheckerBoard == [c \in Cells |-> 2 + 2 * (((c \div Side) + (c % Side)) % 2)]

\* the checkerboard with up to two cells replaced
DetectBoards ==
    {[CheckerBoard EXCEPT ![c1] = v1, ![c2] = v2] :
        c1 \in Cells, c2 \in Cells, v1 \in {0} \cup Tiles, v2 \in {2, 4}}

InitDetect ==
    /\ owner = Deployer
    /\ board \in DetectBoards
    /\ score = 0
    /\ gameOver = FALSE
    /\ nonce = 0
    /\ events = <<>>
    /\ call = [op |-> "_isGameOver", sender |-> Deployer, args |-> <<>>]
    /\ result = "pending"
    /\ mergeIO = NoMerge
    /\ ClientIdle

\* a view function: it returns its answer and writes nothing
ApplyDetect ==
    /\ call.op = "_isGameOver"
    /\ result = "pending"
    /\ result' = IF _isGameOver(board) THEN "true" ELSE "false"
    /\ UNCHANGED <<owner, board, score, gameOver, nonce, events, call, mergeIO,
                   app, net>>

NextDetect == ApplyDetect

SpecDetect == InitDetect /\ [][NextDetect]_vars

(* ------------------------------- the client --------------------------- *)

\* boardData.map(b => Number(b)), Number(await contract.getMyScore()): exact
\* for the values below 2^53, which is every value of ChainStates
ToNumber(v) == v

Keys == {"ArrowUp", "ArrowDown", "ArrowLeft", "ArrowRight", "Enter"}

\* the if/else chain of handleKey; -1 stands for its bare return
KeyDirection(key) ==
    IF key = "ArrowUp" THEN 0
    ELSE IF key = "ArrowDown" THEN 1
    ELSE IF key = "ArrowLeft" THEN 2
    ELSE IF key = "ArrowRight" THEN 3
    ELSE -1

InFlight(u) == u.board + u.score + u.gameOver

\* a call of updateGameState: it returns at once without contract or address,
\* and otherwise awaits getMyBoard
Started(a, u) ==
    IF a.contract /\ a.address THEN [u EXCEPT !.board = @ + 1] ELSE u

\* room for the call of updateGameState that the step makes
CanStart(a) == (a.contract /\ a.address) => InFlight(net.updates) < MaxUpdates

Logged(op, key, outcome) == [op |-> op, key |-> key, outcome |-> outcome]

\* the page opens on any state of the player's game on the contract
InitClient ==
    /\ constructor(Deployer, 0, 0, 0, 0)
    /\ mergeIO = NoMerge
    /\ app = AppStart
    /\ \E ch \in ChainStates : net = NetStart(ch)

\* initProvider resolves: setContract, then the effect of [address, contract]
InitProviderDone ==
    /\ net.connecting
    /\ LET a == [app EXCEPT !.contract = TRUE] IN
       /\ CanStart(a)
       /\ app' = a
       /\ net' = [net EXCEPT !.connecting = FALSE,
                             !.updates = Started(a, @),
                             !.last = NoLog]
    /\ UNCHANGED <<contractVars, mergeIO>>

\* initProvider throws: setError
InitProviderFailed ==
    /\ net.connecting
    /\ app' = [app EXCEPT !.error = "Wallet connection failed"]
    /\ net' = [net EXCEPT !.connecting = FALSE, !.last = NoLog]
    /\ UNCHANGED <<contractVars, mergeIO>>

\* useAccount yields the address, then the effect of [address, contract]
AccountConnected ==
    /\ ~app.address
    /\ LET a == [app EXCEPT !.address = TRUE] IN
       /\ CanStart(a)
       /\ app' = a
       /\ net' = [net EXCEPT !.updates = Started(a, @), !.last = NoLog]
    /\ UNCHANGED <<contractVars, mergeIO>>

\* updateGameState after await contract.getMyBoard(): setPrevBoard, setBoard
ReadBoard ==
    /\ net.updates.board > 0
    /\ app' = Register([app EXCEPT
                            !.board = [c \in Cells |-> ToNumber(net.chain.board[c])]])
    /\ net' = [net EXCEPT !.updates.board = @ - 1, !.updates.score = @ + 1,
                          !.last = NoLog]
    /\ UNCHANGED <<contractVars, mergeIO>>

\* updateGameState after await contract.getMyScore(): setScore
ReadScore ==
    /\ net.updates.score > 0
    /\ app' = [app EXCEPT !.score = ToNumber(net.chain.score)]
    /\ net' = [net EXCEPT !.updates.score = @ - 1, !.updates.gameOver = @ + 1,
                          !.last = NoLog]
    /\ UNCHANGED <<contractVars, mergeIO>>

\* updateGameState after await contract.getMyGameOver(): setGameOver
ReadGameOver ==
    /\ net.updates.gameOver > 0
    /\ app' = [app EXCEPT !.gameOver = net.chain.gameOver]
    /\ net' = [net EXCEPT !.updates.gameOver = @ - 1, !.last = NoLog]
    /\ UNCHANGED <<contractVars, mergeIO>>

\* the component's resetGame, the onClick of the Start/Reset button:
\* resetWrite, then updateGameState of the same render
PressReset ==
    /\ ~app.moveLoading
    /\ app.address
    /\ ~net.reset
    /\ CanStart(app)
    /\ net' = [net EXCEPT !.reset = TRUE,
                          !.resetConfirmed = FALSE,
                          !.updates = Started(app, @),
                          !.last = Logged("resetGame", "none", "submitted")]
    /\ UNCHANGED <<app, contractVars, mergeIO>>

\* the reset transaction is confirmed: no hook of the component watches it
ResetMined ==
    /\ net.reset
    /\ \E ch \in FreshGames :
           net' = [net EXCEPT !.chain = ch, !.reset = FALSE,
                              !.resetConfirmed = TRUE, !.last = NoLog]
    /\ UNCHANGED <<app, contractVars, mergeIO>>

\* makeMove as the registered listener calls it: gameOver, address and
\* contract are the listener's, moveLoading is the current one
makeMove(key, direction) ==
    IF \/ app.listener.gameOver
       \/ ~app.listener.address
       \/ ~app.listener.contract
       \/ app.moveLoading
    THEN /\ app' = [app EXCEPT
                        !.error = "Cannot move: Game over or wallet not connected"]
         /\ net' = [net EXCEPT !.last = Logged("makeMove", key, "refused")]
    ELSE /\ net.move = "sent" => net.unwatched < MaxUnwatched
         /\ app' = Register([app EXCEPT !.moveLoading = TRUE])
         /\ net' = [net EXCEPT
                        !.move = "signing",
                        !.direction = direction,
                        !.unwatched = IF net.move = "sent" THEN @ + 1 ELSE @,
                        !.resetConfirmed = FALSE,
                        !.last = Logged("makeMove", key, "submitted")]

\* the keydown listener
handleKey(key) ==
    IF app.moveLoading \/ KeyDirection(key) = -1
    THEN /\ net' = [net EXCEPT !.last = Logged("handleKey", key, "ignored")]
         /\ UNCHANGED app
    ELSE makeMove(key, KeyDirection(key))

KeyDown ==
    /\ \E key \in Keys : handleKey(key)
    /\ UNCHANGED <<contractVars, mergeIO>>

\* the wallet signs the move: the write hook stops loading and holds the hash;
\* the arguments of the write are now the transaction's
MoveSent ==
    /\ net.move = "signing"
    /\ app' = Register([app EXCEPT !.moveLoading = FALSE])
    /\ net' = [net EXCEPT !.move = "sent", !.direction = 0, !.last = NoLog]
    /\ UNCHANGED <<contractVars, mergeIO>>

\* the wallet declines the move: the write hook stops loading with moveError
MoveRejected ==
    /\ net.move = "signing"
    /\ app' = Register([app EXCEPT !.moveLoading = FALSE])
    /\ net' = [net EXCEPT !.move = "idle", !.direction = 0, !.last = NoLog]
    /\ UNCHANGED <<contractVars, mergeIO>>

\* the watched move transaction is confirmed: onSuccess calls updateGameState
MoveMined ==
    /\ net.move = "sent"
    /\ ~net.chain.gameOver
    /\ CanStart(app)
    /\ \E ch \in ChainStates :
           net' = [net EXCEPT !.chain = ch, !.move = "idle",
                              !.resetConfirmed = FALSE,
                              !.updates = Started(app, @),
                              !.last = NoLog]
    /\ UNCHANGED <<app, contractVars, mergeIO>>

\* the watched move transaction reverts ("Game over"): onError
MoveReverted ==
    /\ net.move = "sent"
    /\ net.chain.gameOver
    /\ app' = [app EXCEPT !.error = "Transaction failed"]
    /\ net' = [net EXCEPT !.move = "idle", !.last = NoLog]
    /\ UNCHANGED <<contractVars, mergeIO>>

\* a move transaction whose hash the hook has dropped is confirmed or reverts
UnwatchedMined ==
    /\ net.unwatched > 0
    /\ \E ch \in ChainStates :
           net' = [net EXCEPT
                       !.chain = IF net.chain.gameOver THEN @ ELSE ch,
                       !.unwatched = @ - 1,
                       !.resetConfirmed = FALSE,
                       !.last = NoLog]
    /\ UNCHANGED <<app, contractVars, mergeIO>>

NextClient ==
    \/ InitProviderDone
    \/ InitProviderFailed
    \/ AccountConnected
    \/ ReadBoard
    \/ ReadScore
    \/ ReadGameOver
    \/ PressReset
    \/ ResetMined
    \/ KeyDown
    \/ MoveSent
    \/ MoveRejected
    \/ MoveMined
    \/ MoveReverted
    \/ UnwatchedMined

SpecClient == InitClient /\ [][NextClient]_vars

(* ===================== reference notions of the claims ================== *)

Row(c) == c \div Side

Col(c) == c % Side

\* the cell at step k (1..4) of line n, counted from the edge that a move in
\* direction d compresses toward
EdgeCell(d, n, k) ==
    CASE d = 0 -> CHOOSE c \in Cells : Col(c) = n /\ Row(c) = k - 1
      [] d = 1 -> CHOOSE c \in Cells : Col(c) = n /\ Row(c) = Side - k
      [] d = 2 -> CHOOSE c \in Cells : Row(c) = n /\ Col(c) = k - 1
      [] d = 3 -> CHOOSE c \in Cells : Row(c) = n /\ Col(c) = Side - k

EdgeLine(b, d, n) == [k \in 1 .. Side |-> b[EdgeCell(d, n, k)]]

NonZero(v) == v # 0

EdgeTiles(b, d, n) == SelectSeq(EdgeLine(b, d, n), NonZero)

\* greedy pairwise merging of a gap-free sequence of tiles
RECURSIVE RefMerge(_)
RefMerge(t) ==
    IF Len(t) < 2 THEN t
    ELSE IF t[1] = t[2] THEN <<t[1] + t[2]>> \o RefMerge(Tail(Tail(t)))
    ELSE <<t[1]>> \o RefMerge(Tail(t))

\* the sum of the tiles that greedy pairwise merging creates
RECURSIVE RefGain(_)
RefGain(t) ==
    IF Len(t) < 2 THEN 0
    ELSE IF t[1] = t[2] THEN t[1] + t[2] + RefGain(Tail(Tail(t)))
    ELSE RefGain(Tail(t))

RECURSIVE SumGain(_, _, _)
SumGain(b, d, n) ==
    IF n = Side THEN 0 ELSE RefGain(EdgeTiles(b, d, n)) + SumGain(b, d, n + 1)

Adjacent(i, j) ==
    \/ Row(i) = Row(j) /\ (Col(i) - Col(j) = 1 \/ Col(j) - Col(i) = 1)
    \/ Col(i) = Col(j) /\ (Row(i) - Row(j) = 1 \/ Row(j) - Row(i) = 1)

Terminal(b) ==
    /\ \A i \in Cells : b[i] # 0
    /\ \A i, j \in Cells : Adjacent(i, j) => b[i] # b[j]

RECURSIVE IsPowerOfTwo(_)
IsPowerOfTwo(v) ==
    v >= 2 /\ (v = 2 \/ (v % 2 = 0 /\ IsPowerOfTwo(v \div 2)))

TileCells(b) == {i \in Cells : b[i] # 0}

\* every line of direction d is packed against the edge, without equal neighbours
PackedNoPairs(b, d) ==
    \A n \in LineIdx : \A k \in 1 .. (Side - 1) :
        LET l == EdgeLine(b, d, n) IN
        /\ l[k] = 0 => l[k + 1] = 0
        /\ l[k] # 0 => l[k] # l[k + 1]

\* the step is a move transaction that the access modifier lets through
OwnerMove == call'.op = "move" /\ call'.sender = owner

Effective(ev) ==
    /\ Len(ev) = 2
    /\ ev[1].name = "NewTileAdded"
    /\ ev[2].name = "MoveMade"

TilesOf(l) == SelectSeq([k \in 1 .. Side |-> l[k - 1]], NonZero)

(* ================================ claims ================================ *)

\* C1: every move that changes at least one cell of the board spawns exactly
\* one tile and emits MoveMade (so a move that spawns nothing leaves board,
\* score and gameOver as they were).
C1_ChangedBoardIsEffective ==
    [][(OwnerMove /\ result' = "ok" /\ board' # board)
         => Effective(events')]_vars

\* C2: in every reachable state gameOver equals the terminal predicate of the
\* board: no empty cell and no two horizontally or vertically adjacent equal
\* cells.
C2_GameOverIsTerminal == gameOver = Terminal(board)

C2_Witness ==
    /\ call.op = "move"
    /\ result = "ok"
    /\ Effective(events)
    /\ gameOver = Terminal(board)

\* C3: whenever gameOver is false some direction of Up, Down, Left, Right
\* gives a move that spawns a tile and emits MoveMade.
C3_EffectiveMovePossible ==
    ~gameOver => \E d \in ValidDirections : Dispatch(board, score, d).r.moved

\* C5: while the game is not over, a move with a direction outside 0..3 is
\* rejected with "Invalid direction", leaves board, score, gameOver and nonce
\* unchanged and emits no event.
C5_InvalidDirectionRejected ==
    [][(OwnerMove /\ ~gameOver /\ call'.args[1] \notin ValidDirections)
         => /\ result' = "Invalid direction"
            /\ events' = <<>>
            /\ UNCHANGED <<board, score, gameOver, nonce>>]_vars

C5_Witness ==
    /\ call.op = "move"
    /\ call.sender = owner
    /\ call.args[1] \notin ValidDirections
    /\ result = "Invalid direction"
    /\ ~gameOver

\* C6: in every reachable state the board has exactly 16 cells and every
\* cell is 0 or a power of two that is at least 2.
C6_BoardShape ==
    /\ DOMAIN board = Cells
    /\ Cardinality(DOMAIN board) = 16
    /\ \A i \in Cells : board[i] = 0 \/ IsPowerOfTwo(board[i])

C6_Witness ==
    /\ call.op = "move"
    /\ Effective(events)
    /\ \E i \in Cells : board[i] = 8

\* C7: a move never decreases the score and increases it by exactly the sum
\* of the doubled tiles that the merges of that move create, by 0 when it
\* merges nothing.
C7_ScoreGain ==
    [][OwnerMove
         => /\ score' >= score
            /\ score' = score + (IF result' = "ok"
                                 THEN SumGain(board, call'.args[1], 0)
                                 ELSE 0)]_vars

C7_Witness ==
    /\ call.op = "move"
    /\ Effective(events)
    /\ events[2].newScore = 12
    /\ score = 12

\* C8: after resetGame the board has exactly 2 non-zero cells, each 2 or 4,
\* the score is 0 and gameOver is false.
C8_ResetState ==
    (call.op \in {"resetGame", "constructor"} /\ result = "ok")
        => /\ Cardinality(TileCells(board)) = 2
           /\ \A i \in TileCells(board) : board[i] \in {2, 4}
           /\ score = 0
           /\ ~gameOver

C8_Witness ==
    /\ call.op = "resetGame"
    /\ result = "ok"
    /\ Cardinality(TileCells(board)) = 2
    /\ \E i \in Cells : board[i] = 4

\* C9: for every extracted line of 0 to 4 tiles _merge leaves the greedy
\* pairwise merge of the line, padded with zeros, and returns its gain:
\* (2,2,2) gives (4,2,0,0) and 4, (2,2,2,2) gives (4,4,0,0) and 8, (2,2,4)
\* gives (4,4,0,0) and 4.
C9_MergeIsGreedy ==
    mergeIO.done =>
        LET t == TilesOf(mergeIO.line) IN
        /\ Len(t) = mergeIO.len
        /\ mergeIO.out = Padded(RefMerge(t))
        /\ mergeIO.addedScore = RefGain(t)
        /\ t = <<2, 2, 2>> =>
               mergeIO.out = Padded(<<4, 2>>) /\ mergeIO.addedScore = 4
        /\ t = <<2, 2, 2, 2>> =>
               mergeIO.out = Padded(<<4, 4>>) /\ mergeIO.addedScore = 8
        /\ t = <<2, 2, 4>> =>
               mergeIO.out = Padded(<<4, 4>>) /\ mergeIO.addedScore = 4

C9_Witness ==
    /\ mergeIO.done
    /\ TilesOf(mergeIO.line) = <<2, 2, 4>>
    /\ mergeIO.out = Padded(<<4, 4>>)

\* C10: when every line of the requested direction is already packed against
\* the compression edge and has no two equal adjacent tiles, move changes
\* none of board, score, gameOver and nonce and emits no event.
C10_PackedMoveIsNoOp ==
    [][(OwnerMove /\ ~gameOver /\ call'.args[1] \in ValidDirections
                  /\ PackedNoPairs(board, call'.args[1]))
         => /\ result' = "ok"
            /\ events' = <<>>
            /\ UNCHANGED <<board, score, gameOver, nonce>>]_vars

C10_Witness ==
    /\ call.op = "move"
    /\ call.sender = owner
    /\ result = "ok"
    /\ events = <<>>
    /\ call.args[1] \in ValidDirections
    /\ PackedNoPairs(board, call.args[1])
    /\ \E n \in LineIdx : Len(EdgeTiles(board, call.args[1], n)) = 2

\* some line of direction d changes under greedy pairwise merging, which is
\* when the line reports changed
LineChanged(b, d) ==
    \E n \in LineIdx : RefMerge(EdgeTiles(b, d, n)) # EdgeTiles(b, d, n)

IsSpawnEvent(e) ==
    e.name = "NewTileAdded" /\ e.position \in Cells /\ e.value \in {2, 4}

\* C11: a move in which a line reports changed emits exactly one NewTileAdded
\* and then one MoveMade with the requested direction and the score after the
\* move; resetGame emits exactly two NewTileAdded and no MoveMade; every
\* other move, and every rejected call, emits nothing.
C11_Notifications ==
    [][/\ (OwnerMove /\ result' = "ok" /\ LineChanged(board, call'.args[1]))
            => /\ Len(events') = 2
               /\ IsSpawnEvent(events'[1])
               /\ events'[2] = [name |-> "MoveMade",
                                direction |-> call'.args[1],
                                newScore |-> score']
       /\ (OwnerMove /\ result' = "ok" /\ ~LineChanged(board, call'.args[1]))
            => events' = <<>>
       /\ (call'.op = "resetGame" /\ result' = "ok")
            => /\ Len(events') = 2
               /\ IsSpawnEvent(events'[1])
               /\ IsSpawnEvent(events'[2])
       /\ result' # "ok" => events' = <<>>]_vars

C11_Witness ==
    /\ call.op = "move"
    /\ result = "ok"
    /\ Len(events) = 2
    /\ events[2] = [name |-> "MoveMade", direction |-> call.args[1],
                    newScore |-> 8]
    /\ score = 8

\* the board that greedy pairwise merging of every line of direction d gives
RefBoard(b, d) ==
    [c \in Cells |->
        LET n == CHOOSE n \in LineIdx : \E k \in 1 .. Side : EdgeCell(d, n, k) = c
            k == CHOOSE k \in 1 .. Side : EdgeCell(d, n, k) = c
        IN Padded(RefMerge(EdgeTiles(b, d, n)))[k - 1]]

\* column x of the board, from top to bottom
ColumnOf(b, x) == <<b[x], b[Side + x], b[2 * Side + x], b[3 * Side + x]>>

\* C13: for each direction the board a move routine leaves is LineMerge
\* applied to each of the four lines, read from the compression edge and
\* written back from that edge, each line depending on that line alone; a
\* column (2,2,2,0) from top to bottom becomes (0,0,2,4) on Down and
\* (4,2,0,0) on Up.
C13_MoveIsLinewiseMerge ==
    [][(call.op = "_move" /\ result = "pending")
         => LET d == call.args[1] IN
            /\ board' = RefBoard(board, d)
            /\ \A n \in LineIdx :
                   EdgeTiles(board', d, n) = RefMerge(EdgeTiles(board, d, n))
            /\ \A x \in LineIdx :
                   ColumnOf(board, x) = <<2, 2, 2, 0>> =>
                       /\ d = 0 => ColumnOf(board', x) = <<4, 2, 0, 0>>
                       /\ d = 1 => ColumnOf(board', x) = <<0, 0, 2, 4>>]_vars

C13_Witness ==
    /\ call.op = "_move"
    /\ call.args[1] = 1
    /\ result = "moved"
    /\ ColumnOf(board, 0) = <<0, 0, 2, 4>>
    /\ ColumnOf(board, 2) = <<0, 0, 0, 4>>
    /\ score = 8

\* C14: a spawn writes 2 or 4 into one cell that was empty, leaves every
\* other cell, the score and gameOver unchanged and reports the index and
\* the value of the written cell; on a board without an empty cell it
\* changes no cell and reports nothing.
C14_SpawnFrame ==
    [][(call.op = "_addRandomTile" /\ result = "pending")
         => /\ UNCHANGED <<score, gameOver>>
            /\ IF \E c \in Cells : board[c] = 0
               THEN \E c \in Cells :
                        /\ board[c] = 0
                        /\ board'[c] \in {2, 4}
                        /\ \A o \in Cells \ {c} : board'[o] = board[o]
                        /\ events' = <<[name |-> "NewTileAdded",
                                        position |-> c, value |-> board'[c]]>>
               ELSE board' = board /\ events' = <<>>]_vars

C14_Witness ==
    /\ call.op = "_addRandomTile"
    /\ result = "ok"
    /\ events = <<[name |-> "NewTileAdded", position |-> 3, value |-> 4]>>
    /\ board[3] = 4
    /\ board[0] = 0

\* C15: the spawner that runs after a move in which a line reports changed,
\* and each of the two spawners of resetGame, finds an empty cell: the board
\* before the spawn has one, and the call adds exactly one tile per spawn.
C15_SpawnerFindsEmptyCell ==
    [][/\ (OwnerMove /\ result' = "ok" /\ LineChanged(board, call'.args[1]))
            => LET pre == RefBoard(board, call'.args[1]) IN
               /\ \E c \in Cells : pre[c] = 0
               /\ Cardinality(TileCells(board')) = Cardinality(TileCells(pre)) + 1
               /\ TileCells(board') = TileCells(pre) \cup {events'[1].position}
       /\ (call'.op = "resetGame" /\ result' = "ok")
            => /\ Cardinality(TileCells(board')) = 2
               /\ TileCells(board') =
                      {events'[1].position, events'[2].position}]_vars

C15_Witness ==
    /\ call.op = "move"
    /\ result = "ok"
    /\ Len(events) = 2
    /\ events[1].position \in TileCells(board)
    /\ Cardinality(TileCells(board)) = 2
    /\ \E c \in Cells : board[c] = 4 /\ c # events[1].position

\* C16: _merge reports changed exactly when its output differs from the
\* gap-free input at some position, which is exactly when a pair merged; a
\* line without two equal neighbours, which can only slide, and the empty
\* line report not changed.
C16_ChangedIffMerged ==
    mergeIO.done =>
        LET t == TilesOf(mergeIO.line) IN
        /\ mergeIO.moved <=> (mergeIO.out # mergeIO.line)
        /\ mergeIO.moved <=> (\E i \in 1 .. (Len(t) - 1) : t[i] = t[i + 1])
        /\ mergeIO.moved <=> (Len(TilesOf(mergeIO.out)) < Len(t))
        /\ mergeIO.len = 0 => ~mergeIO.moved

C16_Witness ==
    /\ mergeIO.done
    /\ TilesOf(mergeIO.line) = <<2, 4, 2>>
    /\ mergeIO.out = mergeIO.line
    /\ ~mergeIO.moved

\* C17: for every board the detector returns true exactly when no cell is
\* empty and no two cells adjacent in a row or in a column are equal; the
\* last cell of a row and the first cell of the next row are not adjacent;
\* the detector modifies no state.
C17_DetectorIsTerminal ==
    [][(call.op = "_isGameOver" /\ result = "pending")
         => /\ result' \in {"true", "false"}
            /\ (result' = "true") <=> Terminal(board)
            /\ (/\ \A c \in Cells : board[c] # 0
                /\ \A c \in Cells \ {NumCells - 1} :
                       board[c] = board[c + 1] => Col(c) = Side - 1
                /\ \A c \in 0 .. (NumCells - Side - 1) :
                       board[c] # board[c + Side]) => result' = "true"
            /\ UNCHANGED <<owner, board, score, gameOver, nonce, events>>]_vars

C17_Witness ==
    /\ call.op = "_isGameOver"
    /\ result = "true"
    /\ board[3] = board[4]
    /\ board[0] = 8

RECURSIVE SpawnCount(_)
SpawnCount(ev) ==
    IF ev = <<>> THEN 0
    ELSE (IF Head(ev).name = "NewTileAdded" THEN 1 ELSE 0) + SpawnCount(Tail(ev))

\* C18: within a game the nonce grows at every spawn, by one for each of the
\* two values the spawn draws, so a later spawn never sees the counter of an
\* earlier one; a move that spawns nothing and a rejected call leave it as it
\* was; resetGame restarts it and its two spawns leave it at 4.
C18_NonceAdvances ==
    [][/\ call'.op = "move"
            => /\ nonce' = nonce + 2 * SpawnCount(events')
               /\ SpawnCount(events') > 0 => nonce' > nonce
       /\ result' # "ok" => nonce' = nonce
       /\ (call'.op = "resetGame" /\ result' = "ok")
            => nonce' = 2 * SpawnCount(events') /\ nonce' = 4]_vars

C18_Witness ==
    /\ call.op = "move"
    /\ result = "ok"
    /\ SpawnCount(events) = 1
    /\ nonce = 8

RECURSIVE BoardSum(_, _)
BoardSum(b, i) == IF i = NumCells THEN 0 ELSE b[i] + BoardSum(b, i + 1)

\* C19: the sum of the 16 cells after a move is the sum before it plus the
\* spawned value, 2 or 4, when a tile was spawned, and the sum before it
\* otherwise.
C19_TileSumConserved ==
    [][call'.op = "move"
         => IF SpawnCount(events') > 0
            THEN /\ events'[1].value \in {2, 4}
                 /\ BoardSum(board', 0) = BoardSum(board, 0) + events'[1].value
            ELSE BoardSum(board', 0) = BoardSum(board, 0)]_vars

C19_Witness ==
    /\ call.op = "move"
    /\ result = "ok"
    /\ SpawnCount(events) = 1
    /\ events[1].value = 4
    /\ BoardSum(board, 0) = 12

\* C20: in every state reachable after construction by resetGame and move
\* calls the board holds at least 2 non-zero tiles.
C20_AtLeastTwoTiles == Cardinality(TileCells(board)) >= 2

C20_Witness ==
    /\ call.op = "move"
    /\ result = "ok"
    /\ Effective(events)
    /\ score = 4
    /\ Cardinality(TileCells(board)) = 2

\* C21: a move or resetGame call by an address other than the owner is
\* rejected and leaves owner, board, score, gameOver and nonce unchanged; the
\* owner is the deployer and never changes.
C21_OnlyOwner ==
    [][/\ (call'.op \in {"move", "resetGame"} /\ call'.sender # owner)
            => /\ result' = "Only owner can call this"
               /\ events' = <<>>
               /\ UNCHANGED <<owner, board, score, gameOver, nonce>>
       /\ owner' = owner
       /\ owner = Deployer]_vars

C21_Witness ==
    /\ call.op = "resetGame"
    /\ call.sender # owner
    /\ result = "Only owner can call this"
    /\ score = 4
    /\ owner = Deployer

\* nothing of the client is in flight: no transaction waits for its
\* confirmation and no updateGameState waits for an answer
Quiescent ==
    /\ ~net.connecting
    /\ ~net.reset
    /\ net.move = "idle"
    /\ net.unwatched = 0
    /\ InFlight(net.updates) = 0

\* C22: once the reset transaction the player submitted is confirmed and no
\* move transaction has followed it, the client comes to rest with its local
\* board, score and gameOver equal to the contract's post-reset state (a
\* client at rest changes only when the player acts again, so what it
\* eventually shows is what it shows at rest).
C22_ResetRefreshes ==
    (/\ net.resetConfirmed
     /\ app.contract
     /\ app.address
     /\ Quiescent)
        => /\ app.board = net.chain.board
           /\ app.score = net.chain.score
           /\ app.gameOver = net.chain.gameOver

\* a step in which the keydown listener ran
KeyStep == net'.last.op \in {"handleKey", "makeMove"}

\* C23: a key press submits a move only when local gameOver is false, an
\* address and a contract are set and no move write is loading; in every other
\* case in which makeMove runs it sets the error message and submits nothing;
\* the direction submitted is the one of the arrow key, in 0..3.
C23_MoveGuard ==
    [][KeyStep =>
         LET allowed == /\ ~app.gameOver
                        /\ app.address
                        /\ app.contract
                        /\ ~app.moveLoading
         IN /\ net'.last.outcome = "submitted"
                 => /\ allowed
                    /\ net'.move = "signing"
                    /\ net'.direction \in ValidDirections
                    /\ net'.direction = KeyDirection(net'.last.key)
            /\ (net'.last.op = "makeMove" /\ ~allowed)
                 => /\ net'.last.outcome = "refused"
                    /\ app'.error = "Cannot move: Game over or wallet not connected"
                    /\ net'.move = net.move
                    /\ net'.unwatched = net.unwatched]_vars

====
